---- MODULE Spec2Model ----
(***************************************************************************)
(* Model of webhook.py: the Flask service that relays Tableau event        *)
(* notifications to Slack and administers Tableau webhooks (create, list,  *)
(* delete) through Tableau's XML REST API.                                 *)
(*                                                                         *)
(* A Python str is a TLA+ string (see "strings" below), Python's None is   *)
(* the value None.  The text of an XML body is the tree of its elements    *)
(* (tag, namespace, attributes, text, children) with every name, value and *)
(* text as it is spelled in the body, or a body that is not XML;           *)
(* ET.fromstring (Parse) turns it into the tree ElementTree holds and      *)
(* ET.tostring (Serialize) spells a tree.  An HTTP call is one atomic      *)
(* step: the request goes out, the peer answers.  A handler is one action  *)
(* per blocking network call it makes, so that concurrent handlers         *)
(* interleave exactly where the code can be preempted by another           *)
(* request's traffic.                                                      *)
(***************************************************************************)
EXTENDS Naturals, Sequences, FiniteSets, TLC

\* ------------------------------------------------------------------ bounds
\* How many webhooks the modelled Tableau server stores.
MaxWebhooks == 2
\* How many sign-ins the modelled Tableau server answers with a fresh token.
MaxSignIns == 2
\* How many requests the concurrent specification serves at once.
NumWorkers == 2

\* ----------------------------------------------------------------- strings
\* A Python str is written character by character: a printable ASCII character
\* other than "<" and the grave accent is itself, and every other character (a
\* control character, those two, a character outside ASCII) is <U+h> with h its code
\* point in upper-case hex, four digits below U+10000 and five or six without a
\* leading zero from there on.  A model string that opens with "<" in any other way is not a str: it is one
\* of the values of "Python values" below.
CharAt(s, i) == SubSeq(s, i, i)

\* s[i : i + n]: the n characters from position i on, fewer at the end of s.
Slice(s, i, n) == SubSeq(s, i, IF i + n - 1 > Len(s) THEN Len(s) ELSE i + n - 1)

HexDigits == "0123456789ABCDEF"
LowerHexDigits == "0123456789abcdef"
DecimalDigits == "0123456789"
\* The characters U+0020 to U+007E, in order (a space where the grave accent is).
AsciiChars ==
    " !\"#$%&'()*+,-./0123456789:;<=>?@ABCDEFGHIJKLMNOPQRSTUVWXYZ[\\]^_ abcdefghijklmnopqrstuvwxyz{|}~"

\* The first position from i on where s holds character c, 0 when it does not.
Find(s, c, i) ==
    IF \A k \in i..Len(s) : CharAt(s, k) # c THEN 0
    ELSE CHOOSE k \in i..Len(s) : CharAt(s, k) = c /\ \A j \in i..(k - 1) : CharAt(s, j) # c

\* Whether s[i..] holds none of the characters chars.
Plain(s, i, chars) == \A k \in i..Len(s) : CharAt(s, k) \notin chars

\* The first code point that is not a character, and the value of a run of digits
\* that is not a number.
Limit == 1114112
Invalid == Limit + 1

\* Numbers are written in decimal ("dec"), in upper-case hex ("HEX") or in hex of
\* either case ("hex").
Base(kind) == IF kind = "dec" THEN 10 ELSE 16
DigitsOf(kind) ==
    CASE kind = "dec" -> DecimalDigits
      [] kind = "HEX" -> HexDigits
      [] OTHER -> HexDigits \o "abcdef"

\* The value of the digit at position k of DigitsOf(kind): the base itself for k = 0,
\* no digit.
ValueAt(k, kind) == IF k = 0 THEN Base(kind) ELSE IF k > 16 THEN k - 7 ELSE k - 1

DigitVal(c, kind) == ValueAt(Find(DigitsOf(kind), c, 1), kind)

\* high followed by the digit d: Limit for every number from Limit on, Invalid when
\* d is no digit.
Shift(high, d, base) ==
    IF high = Invalid \/ d >= base THEN Invalid
    ELSE IF high >= Limit THEN Limit
    ELSE high * base + d

\* The number written s[from..to].
RECURSIVE Number(_, _, _, _)
Number(s, from, to, kind) ==
    IF from > to THEN 0
    ELSE Shift(Number(s, from, to - 1, kind), DigitVal(CharAt(s, to), kind), Base(kind))

\* n in hex, width digits.
RECURSIVE HexOf(_, _, _)
HexOf(digits, n, width) ==
    IF width = 0 THEN ""
    ELSE HexOf(digits, n \div 16, width - 1) \o CharAt(digits, (n % 16) + 1)

\* Whether s[i..i+n-1] is a <U+h>, given that it opens with <U+ and ends with >.
Fits(s, i, n) ==
    /\ n \in 8..10
    /\ Number(s, i + 3, i + n - 2, "HEX") < Limit
    /\ n = 9 => CharAt(s, i + 3) # "0"
    /\ n = 10 => Slice(s, i + 3, 2) = "10"

\* The length of the <U+h> that starts at s[i] (8, 9 or 10), 0 when none does.
NotationLen(s, i) ==
    LET NotationTo(end) == IF end > 0 /\ Fits(s, i, end - i + 1) THEN end - i + 1 ELSE 0
    IN  IF Slice(s, i, 3) = "<U+" THEN NotationTo(Find(s, ">", i)) ELSE 0

\* The code point of the <U+h> of length n at s[i].
CodePoint(s, i, n) == Number(s, i + 3, i + n - 2, "HEX")

\* The character with code point cp, as the model writes it.
FromCodePoint(cp) ==
    IF cp >= 32 /\ cp <= 126 /\ cp \notin {60, 96} THEN CharAt(AsciiChars, cp - 31)
    ELSE "<U+" \o HexOf(HexDigits, cp, IF cp < 65536 THEN 4 ELSE IF cp < 1048576 THEN 5 ELSE 6)
               \o ">"

\* -------------------------------------------------------- Python values
\* Python's None (a JSON null, a missing attribute, an empty element's text).
None == "<None>"

\* A key the request's JSON object does not have.
Missing == "<missing>"

\* A value that is not a str and not None, by the name of its type and its repr:
\* a JSON number (int, float), true or false (bool), an array (list), an
\* object (dict).
NonStr(type, repr) == "<" \o type \o " " \o repr \o ">"

\* isinstance(v, str)
IsStr(v) == ~(Len(v) > 0 /\ CharAt(v, 1) = "<" /\ NotationLen(v, 1) = 0)

\* type(v).__name__
PyType(v) ==
    CASE IsStr(v) -> "str"
      [] v = None -> "NoneType"
      [] OTHER -> SubSeq(v, 2, Find(v, " ", 1) - 1)

\* repr(v) of a value that is not a str.
Repr(v) == IF v = None THEN "None" ELSE SubSeq(v, Find(v, " ", 1) + 1, Len(v) - 1)

\* str.format / f-string rendering: str(v).
Str(x) == IF IsStr(x) THEN x ELSE Repr(x)

\* Python truthiness: `not x`.
Falsy(x) ==
    x \in { None, "", NonStr("int", "0"), NonStr("float", "0.0"), NonStr("float", "-0.0"),
            NonStr("bool", "False"), NonStr("list", "[]"), NonStr("dict", "{}") }

\* dict.get(key): None for a key the object does not have.
DictGet(data, key) == IF data[key] = Missing THEN None ELSE data[key]

\* dict.get(key) in place of dict.get(key, default) (the variant C6 is checked against).
JsonGetNoDefault(data, key, default) == DictGet(data, key)

\* dict.get(key, default): the default only for a key the object does not have; a
\* key that is present with a JSON null gives None.
JsonGet(data, key, default) == IF data[key] = Missing THEN default ELSE data[key]

\* -------------------------------------------------------- configuration
XMLNS == "http://tableau.com/api"
SLACK_WEBHOOK_URL == "https://hooks.slack.example/services/T/B/X"
SLACK_CHANNEL == "#alerts"
SLACK_COLOR == "#C70039"
TABLEAU_SERVER == "https://tableau.example"
TABLEAU_USERNAME == "pat-name"
TABLEAU_PASSWORD == "pat-secret"
VERSION == "3.21"

VALID_TABLEAU_EVENTS ==
    { "AdminPromoted", "AdminDemoted", "DatasourceUpdated", "DatasourceCreated",
      "DatasourceDeleted", "DatasourceRefreshStarted", "DatasourceRefreshSucceeded",
      "DatasourceRefreshFailed", "LabelCreated", "LabelUpdated", "LabelDeleted",
      "SiteCreated", "SiteUpdated", "SiteDeleted", "UserDeleted", "ViewDeleted",
      "WorkbookUpdated", "WorkbookCreated", "WorkbookDeleted", "WorkbookRefreshStarted",
      "WorkbookRefreshSucceeded", "WorkbookRefreshFailed" }

\* ------------------------------------------------------------------- XML
\* An element.  attrs is the sequence of its <<name, value>> pairs, in document order.
\* In the text of a body tag and the attribute names are spelled with their prefixes,
\* ns is the default namespace declared for the element (by its own xmlns="..." or
\* that of an element around it) and a declaration xmlns:prefix="..." is one of
\* attrs; in the tree the parser builds tag is the local name, ns the namespace of
\* the element and an attribute in a namespace is named {namespace}local.
Elem(tag, ns, attrs, text, kids) ==
    [tag |-> tag, ns |-> ns, attrs |-> attrs, text |-> text, kids |-> kids]

\* What find() returns when nothing matches (Python's None, as an element).
NoElement == Elem(None, None, <<>>, None, <<>>)

\* A body: the tree of an XML text, or (wf = FALSE) a text that is not XML, which
\* ET.fromstring raises ParseError on; raw is the text of such a body (Slack's
\* answers, a gateway's plain text).
Doc(root) == [wf |-> TRUE, root |-> root, raw |-> ""]
Text(raw) == [wf |-> FALSE, root |-> NoElement, raw |-> raw]
NotXml == Text("Bad Gateway")
\* A gateway's page <html>Bad Gateway</html>: well-formed XML outside the Tableau
\* namespace, which ET.fromstring parses.
HtmlPage == Doc(Elem("html", "", <<>>, "Bad Gateway", <<>>))
\* An empty body (a 204 answer).
EmptyBody == Text("")

\* Element.get(name, default).
Get(e, name, default) ==
    IF \E i \in 1..Len(e.attrs) : e.attrs[i][1] = name
    THEN e.attrs[CHOOSE i \in 1..Len(e.attrs) : e.attrs[i][1] = name][2]
    ELSE default

RECURSIVE Flatten(_)
Flatten(ss) == IF ss = <<>> THEN <<>> ELSE Head(ss) \o Flatten(Tail(ss))

\* Every element below e, in document order.
RECURSIVE Descendants(_)
Descendants(e) ==
    Flatten([i \in 1..Len(e.kids) |-> <<e.kids[i]>> \o Descendants(e.kids[i])])

Matching(es, ns, tag) == SelectSeq(es, LAMBDA k : k.ns = ns /\ k.tag = tag)

First(es) == IF es = <<>> THEN NoElement ELSE Head(es)

\* find('t:tag', namespaces=XMLNS): the first direct child with that qualified name.
FindChild(e, tag) == First(Matching(e.kids, XMLNS, tag))

\* find('.//t:tag', namespaces=XMLNS): the first descendant with that qualified name.
FindDescendant(e, tag) == First(Matching(Descendants(e), XMLNS, tag))

\* findall('.//{http://tableau.com/api}tag'): every such descendant, in document order.
FindAll(e, tag) == Matching(Descendants(e), XMLNS, tag)

\* An HTTP response as requests returns it: status_code and text.
Response(status, body) == [status_code |-> status, text |-> body]

\* --------------------------------------------------------- ET.fromstring
\* What the parser gives for a piece of the text it rejects.
Malformed == "<malformed>"

\* The code points XML allows as characters.
XmlChar(cp) ==
    \/ cp \in {9, 10, 13}
    \/ cp >= 32 /\ cp <= 55295
    \/ cp >= 57344 /\ cp <= 65533
    \/ cp >= 65536 /\ cp < Limit

\* One step of the parser: how many characters of the text it takes (0: it rejects
\* them) and the characters it yields.
Took(len, out) == [len |-> len, out |-> out]
Rejected == Took(0, "")

\* The code point a reference names: one of the five predefined entities, or the
\* number of a decimal (&#233;) or hex (&#xE9;) character reference.
Named(name) ==
    CASE name = "lt" -> 60
      [] name = "gt" -> 62
      [] name = "amp" -> 38
      [] name = "quot" -> 34
      [] name = "apos" -> 39
      [] Len(name) > 2 /\ SubSeq(name, 1, 2) = "#x" -> Number(name, 3, Len(name), "hex")
      [] Len(name) > 1 /\ CharAt(name, 1) = "#" -> Number(name, 2, Len(name), "dec")
      [] OTHER -> Invalid

\* The reference that starts at s[i] = "&" and runs to the next ";": the character it
\* names, which must be one XML allows.
Reference(s, i) ==
    LET Referenced(cp, len) ==
            IF cp >= Limit \/ ~XmlChar(cp) THEN Rejected ELSE Took(len, FromCodePoint(cp))
        ReferenceTo(end) ==
            IF end = 0 THEN Rejected
            ELSE Referenced(Named(SubSeq(s, i + 1, end - 1)), end - i + 1)
    IN  ReferenceTo(Find(s, ";", i + 1))

\* The line feed, as the model writes it.
LineFeed == "<U+000A>"

\* The character cp, written with n characters raw in the text: "<" opens markup and
\* a control character is no XML character; CR LF (crlf: a line feed follows) is one
\* line break, which like a tab becomes a space in an attribute value and is a line
\* feed in text.
Raw(cp, n, attr, crlf) ==
    CASE cp = 60 -> Rejected
      [] cp = 13 /\ crlf -> Took(n, "")
      [] cp \in {9, 10, 13} /\ attr -> Took(n, " ")
      [] cp = 13 -> Took(n, LineFeed)
      [] ~XmlChar(cp) -> Rejected
      [] OTHER -> Took(n, FromCodePoint(cp))

\* The character written raw at s[i] (a "<" that opens no <U+h> is markup).
RawChar(s, i, attr) ==
    LET RawOf(n) ==
            IF n = 0 THEN Rejected
            ELSE Raw(CodePoint(s, i, n), n, attr, Slice(s, i + n, Len(LineFeed)) = LineFeed)
    IN  RawOf(NotationLen(s, i))

\* What the parser does at s[i].
Step(s, i, attr) ==
    CASE CharAt(s, i) = "&" -> Reference(s, i)
      [] CharAt(s, i) = "<" -> RawChar(s, i, attr)
      [] CharAt(s, i) = "]" /\ ~attr /\ Slice(s, i, 3) = "]]>" -> Rejected
      [] OTHER -> Took(1, CharAt(s, i))

\* out followed by rest, Malformed when rest is.
Join(out, rest) == IF rest = Malformed THEN Malformed ELSE out \o rest

\* The value the parser gives for an attribute value (attr) or a text spelled
\* s[i..], Malformed when it rejects it; what holds no reference, no "<" and no "]"
\* is its own value.
RECURSIVE DecodeFrom(_, _, _)
DecodeFrom(s, i, attr) ==
    LET DecodeAfter(step) ==
            IF step.len = 0 THEN Malformed
            ELSE Join(step.out, DecodeFrom(s, i + step.len, attr))
    IN  IF Plain(s, i, {"&", "<", "]"}) THEN SubSeq(s, i, Len(s))
        ELSE DecodeAfter(Step(s, i, attr))

\* An attribute value is quoted with " or ': it cannot hold both raw.
XmlDecode(s, attr) ==
    IF attr /\ Find(s, "\"", 1) > 0 /\ Find(s, "'", 1) > 0 THEN Malformed
    ELSE DecodeFrom(s, 1, attr)

\* The code points outside ASCII a name may start with, as ranges <<first, last>>: the
\* letters and ideographs of XML 1.0 (none above U+FFFF).
NameStartRanges ==
    { <<192, 214>>, <<216, 246>>, <<248, 305>>, <<308, 318>>, <<321, 328>>, <<330, 382>>,
      <<384, 451>>, <<461, 496>>, <<500, 501>>, <<506, 535>>, <<592, 680>>, <<699, 705>>,
      <<902, 902>>, <<904, 906>>, <<908, 908>>, <<910, 929>>, <<931, 974>>, <<976, 982>>,
      <<986, 986>>, <<988, 988>>, <<990, 990>>, <<992, 992>>, <<994, 1011>>,
      <<1025, 1036>>, <<1038, 1103>>, <<1105, 1116>>, <<1118, 1153>>, <<1168, 1220>>,
      <<1223, 1224>>, <<1227, 1228>>, <<1232, 1259>>, <<1262, 1269>>, <<1272, 1273>>,
      <<1329, 1366>>, <<1369, 1369>>, <<1377, 1414>>, <<1488, 1514>>, <<1520, 1522>>,
      <<1569, 1594>>, <<1601, 1610>>, <<1649, 1719>>, <<1722, 1726>>, <<1728, 1742>>,
      <<1744, 1747>>, <<1749, 1749>>, <<1765, 1766>>, <<2309, 2361>>, <<2365, 2365>>,
      <<2392, 2401>>, <<2437, 2444>>, <<2447, 2448>>, <<2451, 2472>>, <<2474, 2480>>,
      <<2482, 2482>>, <<2486, 2489>>, <<2524, 2525>>, <<2527, 2529>>, <<2544, 2545>>,
      <<2565, 2570>>, <<2575, 2576>>, <<2579, 2600>>, <<2602, 2608>>, <<2610, 2611>>,
      <<2613, 2614>>, <<2616, 2617>>, <<2649, 2652>>, <<2654, 2654>>, <<2674, 2676>>,
      <<2693, 2699>>, <<2701, 2701>>, <<2703, 2705>>, <<2707, 2728>>, <<2730, 2736>>,
      <<2738, 2739>>, <<2741, 2745>>, <<2749, 2749>>, <<2784, 2784>>, <<2821, 2828>>,
      <<2831, 2832>>, <<2835, 2856>>, <<2858, 2864>>, <<2866, 2867>>, <<2870, 2873>>,
      <<2877, 2877>>, <<2908, 2909>>, <<2911, 2913>>, <<2949, 2954>>, <<2958, 2960>>,
      <<2962, 2965>>, <<2969, 2970>>, <<2972, 2972>>, <<2974, 2975>>, <<2979, 2980>>,
      <<2984, 2986>>, <<2990, 2997>>, <<2999, 3001>>, <<3077, 3084>>, <<3086, 3088>>,
      <<3090, 3112>>, <<3114, 3123>>, <<3125, 3129>>, <<3168, 3169>>, <<3205, 3212>>,
      <<3214, 3216>>, <<3218, 3240>>, <<3242, 3251>>, <<3253, 3257>>, <<3294, 3294>>,
      <<3296, 3297>>, <<3333, 3340>>, <<3342, 3344>>, <<3346, 3368>>, <<3370, 3385>>,
      <<3424, 3425>>, <<3585, 3630>>, <<3632, 3632>>, <<3634, 3635>>, <<3648, 3653>>,
      <<3713, 3714>>, <<3716, 3716>>, <<3719, 3720>>, <<3722, 3722>>, <<3725, 3725>>,
      <<3732, 3735>>, <<3737, 3743>>, <<3745, 3747>>, <<3749, 3749>>, <<3751, 3751>>,
      <<3754, 3755>>, <<3757, 3758>>, <<3760, 3760>>, <<3762, 3763>>, <<3773, 3773>>,
      <<3776, 3780>>, <<3904, 3911>>, <<3913, 3945>>, <<4256, 4293>>, <<4304, 4342>>,
      <<4352, 4352>>, <<4354, 4355>>, <<4357, 4359>>, <<4361, 4361>>, <<4363, 4364>>,
      <<4366, 4370>>, <<4412, 4412>>, <<4414, 4414>>, <<4416, 4416>>, <<4428, 4428>>,
      <<4430, 4430>>, <<4432, 4432>>, <<4436, 4437>>, <<4441, 4441>>, <<4447, 4449>>,
      <<4451, 4451>>, <<4453, 4453>>, <<4455, 4455>>, <<4457, 4457>>, <<4461, 4462>>,
      <<4466, 4467>>, <<4469, 4469>>, <<4510, 4510>>, <<4520, 4520>>, <<4523, 4523>>,
      <<4526, 4527>>, <<4535, 4536>>, <<4538, 4538>>, <<4540, 4546>>, <<4587, 4587>>,
      <<4592, 4592>>, <<4601, 4601>>, <<7680, 7835>>, <<7840, 7929>>, <<7936, 7957>>,
      <<7960, 7965>>, <<7968, 8005>>, <<8008, 8013>>, <<8016, 8023>>, <<8025, 8025>>,
      <<8027, 8027>>, <<8029, 8029>>, <<8031, 8061>>, <<8064, 8116>>, <<8118, 8124>>,
      <<8126, 8126>>, <<8130, 8132>>, <<8134, 8140>>, <<8144, 8147>>, <<8150, 8155>>,
      <<8160, 8172>>, <<8178, 8180>>, <<8182, 8188>>, <<8486, 8486>>, <<8490, 8491>>,
      <<8494, 8494>>, <<8576, 8578>>, <<12295, 12295>>, <<12321, 12329>>, <<12353, 12436>>,
      <<12449, 12538>>, <<12549, 12588>>, <<19968, 40869>>, <<44032, 55203>> }

\* The code points outside ASCII a name may hold after its first character besides
\* those: the combining characters, the digits and the extenders.
NameOnlyRanges ==
    { <<183, 183>>, <<720, 721>>, <<768, 837>>, <<864, 865>>, <<903, 903>>, <<1155, 1158>>,
      <<1425, 1441>>, <<1443, 1465>>, <<1467, 1469>>, <<1471, 1471>>, <<1473, 1474>>,
      <<1476, 1476>>, <<1600, 1600>>, <<1611, 1618>>, <<1632, 1641>>, <<1648, 1648>>,
      <<1750, 1764>>, <<1767, 1768>>, <<1770, 1773>>, <<1776, 1785>>, <<2305, 2307>>,
      <<2364, 2364>>, <<2366, 2381>>, <<2385, 2388>>, <<2402, 2403>>, <<2406, 2415>>,
      <<2433, 2435>>, <<2492, 2492>>, <<2494, 2500>>, <<2503, 2504>>, <<2507, 2509>>,
      <<2519, 2519>>, <<2530, 2531>>, <<2534, 2543>>, <<2562, 2562>>, <<2620, 2620>>,
      <<2622, 2626>>, <<2631, 2632>>, <<2635, 2637>>, <<2662, 2673>>, <<2689, 2691>>,
      <<2748, 2748>>, <<2750, 2757>>, <<2759, 2761>>, <<2763, 2765>>, <<2790, 2799>>,
      <<2817, 2819>>, <<2876, 2876>>, <<2878, 2883>>, <<2887, 2888>>, <<2891, 2893>>,
      <<2902, 2903>>, <<2918, 2927>>, <<2946, 2947>>, <<3006, 3010>>, <<3014, 3016>>,
      <<3018, 3021>>, <<3031, 3031>>, <<3047, 3055>>, <<3073, 3075>>, <<3134, 3140>>,
      <<3142, 3144>>, <<3146, 3149>>, <<3157, 3158>>, <<3174, 3183>>, <<3202, 3203>>,
      <<3262, 3268>>, <<3270, 3272>>, <<3274, 3277>>, <<3285, 3286>>, <<3302, 3311>>,
      <<3330, 3331>>, <<3390, 3395>>, <<3398, 3400>>, <<3402, 3405>>, <<3415, 3415>>,
      <<3430, 3439>>, <<3633, 3633>>, <<3636, 3642>>, <<3654, 3662>>, <<3664, 3673>>,
      <<3761, 3761>>, <<3764, 3769>>, <<3771, 3772>>, <<3782, 3782>>, <<3784, 3789>>,
      <<3792, 3801>>, <<3864, 3865>>, <<3872, 3881>>, <<3893, 3893>>, <<3895, 3895>>,
      <<3897, 3897>>, <<3902, 3903>>, <<3953, 3972>>, <<3974, 3979>>, <<3984, 3989>>,
      <<3991, 3991>>, <<3993, 4013>>, <<4017, 4023>>, <<4025, 4025>>, <<8400, 8412>>,
      <<8417, 8417>>, <<12293, 12293>>, <<12330, 12335>>, <<12337, 12341>>,
      <<12441, 12442>>, <<12445, 12446>>, <<12540, 12542>> }

\* The ASCII characters of a name: the letters and "_" to start with, then also the
\* digits, "-" and ".".
NameStartChars == { CharAt(AsciiChars, k) : k \in (34..59) \cup (66..91) } \cup {"_"}
NameChars == NameStartChars \cup { CharAt(AsciiChars, k) : k \in 17..26 } \cup {"-", "."}

\* Whether the character cp outside ASCII may stand in a name, at its start (first) or
\* after it.
NameCodePoint(cp, first) ==
    \/ \E r \in NameStartRanges : r[1] <= cp /\ cp <= r[2]
    \/ ~first /\ \E r \in NameOnlyRanges : r[1] <= cp /\ cp <= r[2]

\* Whether s[i..] ends a name whose current half (the prefix, or the local name when
\* prefixed) starts at s[start]: name characters, with one colon between two halves
\* that are both names.
RECURSIVE NameFrom(_, _, _, _)
NameFrom(s, i, start, prefixed) ==
    LET NameAfter(n) ==
            IF n > 0
            THEN NameCodePoint(CodePoint(s, i, n), i = start)
                     /\ NameFrom(s, i + n, start, prefixed)
            ELSE CharAt(s, i) \in (IF i = start THEN NameStartChars ELSE NameChars)
                     /\ NameFrom(s, i + 1, start, prefixed)
    IN  CASE i > Len(s) -> i > start
          [] CharAt(s, i) = ":" -> ~prefixed /\ i > start /\ NameFrom(s, i + 1, i + 1, TRUE)
          [] OTHER -> NameAfter(NotationLen(s, i))

\* Whether the parser takes s for the name of an element or attribute.
NameOk(s) == NameFrom(s, 1, 1, FALSE)

\* One element as the parser builds it from the pieces it reads, under the
\* declarations env of the elements around it (<<prefix, uri>> pairs, the innermost
\* first): none (its tag is Malformed) when it rejects a name, a declaration, a
\* prefix, a value, the text or an element below, or when an attribute is given
\* twice.  A declaration (xmlns="..." or xmlns:prefix="...") is no attribute of the
\* element, and an attribute with a prefix is named {namespace}local.  The prefixes
\* xml and xmlns and their namespaces are reserved, only the default namespace can
\* be undeclared, and "}" is what pyexpat separates a namespace from a name with.
RECURSIVE ParseElem(_, _)
ParseElem(e, env) ==
    LET XML_NAMESPACE == "http://www.w3.org/XML/1998/namespace"
        XMLNS_NAMESPACE == "http://www.w3.org/2000/xmlns/"
        Refused == Elem(Malformed, None, <<>>, None, <<>>)
        Prefix(name) == SubSeq(name, 1, Find(name, ":", 1) - 1)
        Local(name) == SubSeq(name, Find(name, ":", 1) + 1, Len(name))
        IsDeclaration(attr) == attr[1] = "xmlns" \/ Prefix(attr[1]) = "xmlns"
        UriOk(prefix, uri) ==
            /\ uri # Malformed
            /\ prefix # "xmlns"
            /\ IF prefix = "xml" THEN uri = XML_NAMESPACE
               ELSE uri \notin {XML_NAMESPACE, XMLNS_NAMESPACE}
            /\ prefix = "" \/ uri # ""
            /\ Find(uri, "}", 1) = 0
        Innermost(found) == IF found = <<>> THEN Malformed ELSE found[1][2]
        Bound(scope, prefix) ==
            IF prefix = "xml" THEN XML_NAMESPACE
            ELSE Innermost(SelectSeq(scope, LAMBDA d : d[1] = prefix))
        Distinct(attrs) ==
            \A i, j \in 1..Len(attrs) : attrs[i][1] = attrs[j][1] => i = j
        Qualified(scope, name, prefix) ==
            IF prefix = "" THEN name
            ELSE IF Bound(scope, prefix) = Malformed THEN Malformed
            ELSE "{" \o Bound(scope, prefix) \o "}" \o Local(name)
        Built(ns, attrs, text, kids) ==
            IF /\ ns # Malformed /\ text # Malformed
               /\ \A i \in 1..Len(attrs) : attrs[i][1] # Malformed /\ attrs[i][2] # Malformed
               /\ Distinct(attrs)
               /\ \A i \in 1..Len(kids) : kids[i].tag # Malformed
            THEN Elem(Local(e.tag), ns, attrs, IF text = "" THEN None ELSE text, kids)
            ELSE Refused
        Resolved(scope, default, attrs) ==
            Built(IF Prefix(e.tag) = "" THEN default ELSE Bound(scope, Prefix(e.tag)),
                  [i \in 1..Len(attrs) |->
                      <<Qualified(scope, attrs[i][1], Prefix(attrs[i][1])),
                        XmlDecode(attrs[i][2], TRUE)>>],
                  IF e.text = None THEN "" ELSE XmlDecode(e.text, FALSE),
                  [i \in 1..Len(e.kids) |-> ParseElem(e.kids[i], scope)])
        Declared(default, declarations) ==
            IF /\ UriOk("", default)
               /\ \A i \in 1..Len(declarations) : UriOk(declarations[i][1], declarations[i][2])
            THEN Resolved(SelectSeq(declarations, LAMBDA d : d[1] # "") \o env, default,
                          SelectSeq(e.attrs, LAMBDA a : ~IsDeclaration(a)))
            ELSE Refused
        Declarations(attrs) ==
            [i \in 1..Len(attrs) |->
                <<IF attrs[i][1] = "xmlns" THEN "" ELSE Local(attrs[i][1]),
                  XmlDecode(attrs[i][2], TRUE)>>]
    IN  IF /\ NameOk(e.tag)
           /\ \A i \in 1..Len(e.attrs) : NameOk(e.attrs[i][1])
           /\ Distinct(e.attrs)
        THEN Declared(XmlDecode(e.ns, TRUE), Declarations(SelectSeq(e.attrs, IsDeclaration)))
        ELSE Refused

\* ET.fromstring(text): the tree, or (wf = FALSE) a ParseError.
Parse(text) ==
    LET root == ParseElem(text.root, <<>>)
    IN  IF text.wf /\ root.tag # Malformed THEN Doc(root) ELSE Text(text.raw)

\* ----------------------------------------------------------- ET.tostring
\* _escape_attrib on a printable ASCII character.
SpellAscii(c) ==
    CASE c = "&" -> "&amp;"
      [] c = ">" -> "&gt;"
      [] c = "\"" -> "&quot;"
      [] OTHER -> c

\* The writer's errors="xmlcharrefreplace" on the character cp.
WriteCodePoint(cp, encoding) ==
    CASE cp >= 128 /\ encoding = "us-ascii" -> "&#" \o ToString(cp) \o ";"
      [] cp >= 55296 /\ cp <= 57343 -> "&#" \o ToString(cp) \o ";"
      [] OTHER -> FromCodePoint(cp)

\* _escape_attrib and the writer on the character cp (not printable ASCII, or one of
\* "<" and the grave accent).
SpellCodePoint(cp, encoding) ==
    CASE cp = 60 -> "&lt;"
      [] cp = 13 -> "&#13;"
      [] cp = 10 -> "&#10;"
      [] cp = 9 -> "&#09;"
      [] OTHER -> WriteCodePoint(cp, encoding)

\* s[i..] as the writer spells it: escaped (a str), or as it is (the str() of a list
\* or a dict, which _escape_attrib returns untouched); what holds none of the
\* characters either of them replaces is spelled as it is.
RECURSIVE SpellFrom(_, _, _, _)
SpellFrom(s, i, encoding, escaped) ==
    LET SpellAfter(n) ==
            IF n = 0
            THEN (IF escaped THEN SpellAscii(CharAt(s, i)) ELSE CharAt(s, i))
                     \o SpellFrom(s, i + 1, encoding, escaped)
            ELSE (IF escaped THEN SpellCodePoint(CodePoint(s, i, n), encoding)
                  ELSE WriteCodePoint(CodePoint(s, i, n), encoding))
                     \o SpellFrom(s, i + n, encoding, escaped)
    IN  IF Plain(s, i, {"&", "<", ">", "\""}) THEN SubSeq(s, i, Len(s))
        ELSE SpellAfter(NotationLen(s, i))

\* An attribute value as ET.tostring writes it: a str escaped, a list or a dict by
\* its str().
EscapeAttrib(v, encoding) ==
    IF IsStr(v) THEN SpellFrom(v, 1, encoding, TRUE) ELSE SpellFrom(Repr(v), 1, encoding, FALSE)

\* The attribute values below e, in document order.
RECURSIVE Values(_)
Values(e) ==
    [i \in 1..Len(e.attrs) |-> e.attrs[i][2]]
        \o Flatten([i \in 1..Len(e.kids) |-> Values(e.kids[i])])

\* `c in v` for the list or dict with repr r, from r[i] on and depth brackets deep,
\* and one of the one-character strings c _escape_attrib looks for ("&", "<", ">", the
\* double quote, CR, LF, tab): an element of the list, a key of the dict (keys: what a
\* colon follows).
RECURSIVE HoldsEscaped(_, _, _, _)
HoldsEscaped(r, i, depth, keys) ==
    LET EscapedReprs == { "'&'", "'<U+003C>'", "'>'", "'\"'", "'\\r'", "'\\n'", "'\\t'" }
        \* Where the string literal that opened with quote before r[j] closes.
        RECURSIVE LiteralEnd(_, _)
        LiteralEnd(j, quote) ==
            IF j > Len(r) THEN Len(r)
            ELSE IF CharAt(r, j) = "\\" THEN LiteralEnd(j + 2, quote)
            ELSE IF CharAt(r, j) = quote THEN j
            ELSE LiteralEnd(j + 1, quote)
        AfterLiteral(end) ==
            \/ /\ depth = 1
               /\ SubSeq(r, i, end) \in EscapedReprs
               /\ keys => Slice(r, end + 1, 1) = ":"
            \/ HoldsEscaped(r, end + 1, depth, keys)
    IN  CASE i > Len(r) -> FALSE
          [] CharAt(r, i) \in {"'", "\""} -> AfterLiteral(LiteralEnd(i + 1, CharAt(r, i)))
          [] CharAt(r, i) \in {"[", "{"} -> HoldsEscaped(r, i + 1, depth + 1, keys)
          [] CharAt(r, i) \in {"]", "}"} -> HoldsEscaped(r, i + 1, depth - 1, keys)
          [] OTHER -> HoldsEscaped(r, i + 1, depth, keys)

\* A value _escape_attrib raises TypeError on: `in` fails on a value that is no
\* container, and replace on a list or a dict that holds one of those strings.
Unserializable(v) ==
    /\ ~IsStr(v)
    /\ PyType(v) \in {"list", "dict"} => HoldsEscaped(Repr(v), 1, 0, PyType(v) = "dict")

RECURSIVE SpellElem(_, _)
SpellElem(e, encoding) ==
    Elem(e.tag, e.ns,
         [i \in 1..Len(e.attrs) |-> <<e.attrs[i][1], EscapeAttrib(e.attrs[i][2], encoding)>>],
         e.text,
         [i \in 1..Len(e.kids) |-> SpellElem(e.kids[i], encoding)])

\* ------------------------------------------------------- _check_status
\* Lines 95-102: the three pieces of the fault, each with its default.
TextOr(element, default) == IF element # NoElement THEN element.text ELSE default

FaultCode(root) ==
    LET CodeOr(error_element) ==
            IF error_element # NoElement THEN Get(error_element, "code", "unknown")
            ELSE "unknown code"
    IN  CodeOr(FindChild(root, "error"))

FaultSummary(root) == TextOr(FindDescendant(root, "summary"), "unknown summary")

FaultDetail(root) == TextOr(FindDescendant(root, "detail"), "unknown detail")

\* Line 103: '{0}: {1} - {2}'.format(code, summary, detail).
ErrorMessage(code, summary, detail) ==
    Str(code) \o ": " \o Str(summary) \o " - " \o Str(detail)

\* What a call raised: nothing, or an exception type with its message and, for an
\* ApiCallError, the three pieces the message was formatted from.
NoException ==
    [type |-> "none", message |-> "", code |-> "", summary |-> "", detail |-> ""]
Raise(type, message) ==
    [type |-> type, message |-> message, code |-> "", summary |-> "", detail |-> ""]

\* Lines 91-105: nothing on the expected status; otherwise the body is parsed and
\* the ApiCallError formatted from its three pieces is raised.
check_status(server_response, success_code) ==
    LET ApiCallError(code, summary, detail) ==
            [type |-> "ApiCallError", message |-> ErrorMessage(code, summary, detail),
             code |-> code, summary |-> summary, detail |-> detail]
        FaultOf(parsed_response) ==
            IF ~parsed_response.wf THEN Raise("ParseError", "not well-formed")
            ELSE ApiCallError(FaultCode(parsed_response.root),
                              FaultSummary(parsed_response.root),
                              FaultDetail(parsed_response.root))
    IN  IF server_response.status_code # success_code
        THEN FaultOf(Parse(server_response.text))
        ELSE NoException

\* ET.tostring(root, encoding): the body written, or the TypeError of the first value
\* it cannot write.
Serialize(root, encoding) ==
    LET CannotSerialize(v) ==
            Raise("TypeError",
                  "cannot serialize " \o Repr(v) \o " (type " \o PyType(v) \o ")")
        Written(bad) ==
            IF bad # <<>> THEN [exc |-> CannotSerialize(bad[1]), body |-> Text("")]
            ELSE [exc |-> NoException, body |-> Doc(SpellElem(root, encoding))]
    IN  Written(SelectSeq(Values(root), Unserializable))

\* ------------------------------------------------- _encode_for_display
\* The backslashreplace escape of the character with code point cp: \xhh below
\* U+0100, \uhhhh below U+10000, \Uhhhhhhhh from there on.
EscapeChar(cp) ==
    IF cp < 256 THEN "\\x" \o HexOf(LowerHexDigits, cp, 2)
    ELSE IF cp < 65536 THEN "\\u" \o HexOf(LowerHexDigits, cp, 4)
    ELSE "\\U" \o HexOf(LowerHexDigits, cp, 8)

\* The character cp as the escaped text holds it.
EscapeCodePoint(cp) == IF cp >= 128 THEN EscapeChar(cp) ELSE FromCodePoint(cp)

RECURSIVE EscapeFrom(_, _)
EscapeFrom(s, i) ==
    LET EscapeAfter(n) ==
            IF n = 0 THEN CharAt(s, i) \o EscapeFrom(s, i + 1)
            ELSE EscapeCodePoint(CodePoint(s, i, n)) \o EscapeFrom(s, i + n)
    IN  IF Plain(s, i, {"<"}) THEN SubSeq(s, i, Len(s)) ELSE EscapeAfter(NotationLen(s, i))

\* text.encode('ascii', errors="backslashreplace").decode('utf-8'): every character
\* outside ASCII becomes its backslash escape; ASCII text is unchanged.
AsciiEscape(s) == EscapeFrom(s, 1)

\* The escape applied to the text of an XML body: to every name, value and text as it
\* is spelled there (a character reference is ASCII and stays).
RECURSIVE EscapeElem(_)
EscapeElem(e) ==
    Elem(AsciiEscape(e.tag), AsciiEscape(e.ns),
         [i \in 1..Len(e.attrs) |-> <<AsciiEscape(e.attrs[i][1]), AsciiEscape(e.attrs[i][2])>>],
         IF e.text = None THEN None ELSE AsciiEscape(e.text),
         [i \in 1..Len(e.kids) |-> EscapeElem(e.kids[i])])

\* _encode_for_display(text) on the text of a response.
encode_for_display(text) ==
    IF text.wf THEN Doc(EscapeElem(text.root)) ELSE Text(AsciiEscape(text.raw))

\* -------------------------------------------------------------- state
VARIABLES
    TABLEAU_SITE_ID, \* os.getenv('TABLEAU_SITE_ID'): None when the variable is not set
    pc,          \* per worker: "idle", "signed_in" (between the two calls), "done"
    request,     \* per worker: the operation and JSON body of the request it serves
    session,     \* per worker: the handler's locals token, site_id
    calls,       \* per worker: the network calls this request has issued, in order
    result,      \* per worker: the HTTP response the handler returned
    webhooks,    \* Tableau: the stored webhooks, in creation order
    created,     \* Tableau: how many webhooks it has ever created (ids are not reused)
    signins,     \* Tableau: how many tokens it has issued
    revoked,     \* Tableau: the tokens a sign-out has invalidated
    roundtrip,   \* history: what each successful create supplied, until it is deleted
    cs_response, \* the inputs and the output of a direct _check_status call
    cs_code,
    cs_result

vars == <<TABLEAU_SITE_ID, pc, request, session, calls, result, webhooks, created, signins,
          revoked, roundtrip, cs_response, cs_code, cs_result>>

\* ------------------------------------------------------ Tableau (peer)
\* A piece of a document the peer leaves out.
Absent == "<absent>"

\* The site the peer has, by its contentUrl and its id.
SiteContentUrl == "mysite"
SiteLuid == "site-luid-1"
Token(n) == "token-" \o ToString(n)
WebhookId(n) == "wh-" \o ToString(n)

\* A value as the peer spells it in a body.
Wire(v) == EscapeAttrib(v, "utf-8")

Attrs(pairs) == SelectSeq(pairs, LAMBDA p : p[2] # Absent)
Kids(es) == SelectSeq(es, LAMBDA k : k # NoElement)
\* The root of every body Tableau answers with: in the API's namespace, with the
\* location of its schema.
TsResponse(kids) ==
    LET XSI == "http://www.w3.org/2001/XMLSchema-instance"
        SchemaLocation ==
            XMLNS \o " https://help.tableau.com/samples/en-us/rest_api/ts-api_3_21.xsd"
    IN  Elem("tsResponse", XMLNS,
             << <<"xmlns:xsi", XSI>>, <<"xsi:schemaLocation", SchemaLocation>> >>, None, kids)

\* A fault document.  With an error element the summary and detail sit inside it
\* (Tableau's shape); without one they sit under the root.
FaultDoc(hasError, code, summary, detail) ==
    LET sd == Kids(<< IF summary = Absent THEN NoElement
                      ELSE Elem("summary", XMLNS, <<>>, summary, <<>>),
                      IF detail = Absent THEN NoElement
                      ELSE Elem("detail", XMLNS, <<>>, detail, <<>>) >>)
    IN  Doc(TsResponse(IF hasError
                       THEN <<Elem("error", XMLNS, Attrs(<< <<"code", code>> >>), None, sd)>>
                       ELSE sd))

Fault(status, code, summary, detail) == Response(status, FaultDoc(TRUE, code, summary, detail))

\* The body of a sign-in answer; token / siteId Absent leaves the attribute out, and
\* extra is one more element inside credentials (NoElement: none).
SignInDocWith(hasCredentials, token, hasSite, siteId, extra) ==
    LET site == IF hasSite
                THEN Elem("site", XMLNS,
                          Attrs(<< <<"id", siteId>>, <<"contentUrl", SiteContentUrl>> >>),
                          None, <<>>)
                ELSE NoElement
        user == Elem("user", XMLNS, << <<"id", "user-luid-1">> >>, None, <<>>)
    IN  Doc(TsResponse(IF hasCredentials
                       THEN <<Elem("credentials", XMLNS, Attrs(<< <<"token", token>> >>),
                                   None, Kids(<<site, user, extra>>))>>
                       ELSE <<>>))

SignInDoc(hasCredentials, token, hasSite, siteId) ==
    SignInDocWith(hasCredentials, token, hasSite, siteId, NoElement)

\* The ways the peer may answer a sign-in.
SignInShapes ==
    { "ok", "no_credentials", "no_token", "no_site", "no_site_id", "not_xml", "html",
      "non_ascii_token", "char_ref_token", "non_ascii_name",
      "fault", "fault_no_code", "fault_bare", "fault_not_xml", "no_answer" }

\* The token the peer issues in its n-th sign-in under a shape: with an e acute at
\* its end in two of them.
IssuedToken(shape, n) ==
    IF shape \in {"non_ascii_token", "char_ref_token"} THEN Token(n) \o "<U+00E9>"
    ELSE Token(n)

\* Whether an answer hands out a token (and so uses one up).
IssuesToken(response) ==
    /\ response.status_code = 200 /\ response.text.wf
    /\ Get(FindChild(response.text.root, "credentials"), "token", Absent) # Absent

\* The answer to a sign-in the peer accepts, in each shape: n is the number of the
\* token it would issue.
SignInAnswer(shape, n) ==
    CASE shape = "ok" -> Response(200, SignInDoc(TRUE, Token(n), TRUE, SiteLuid))
      [] shape = "no_credentials" -> Response(200, SignInDoc(FALSE, Absent, FALSE, Absent))
      [] shape = "no_token" -> Response(200, SignInDoc(TRUE, Absent, TRUE, SiteLuid))
      [] shape = "no_site" -> Response(200, SignInDoc(TRUE, Token(n), FALSE, Absent))
      [] shape = "no_site_id" -> Response(200, SignInDoc(TRUE, Token(n), TRUE, Absent))
      [] shape = "not_xml" -> Response(200, NotXml)
      [] shape = "html" -> Response(200, HtmlPage)
      [] shape = "non_ascii_token" ->
             Response(200, SignInDoc(TRUE, Token(n) \o "<U+00E9>", TRUE, SiteLuid))
      [] shape = "char_ref_token" ->
             Response(200, SignInDoc(TRUE, Token(n) \o "&#233;", TRUE, SiteLuid))
      [] shape = "non_ascii_name" ->
             Response(200, SignInDocWith(TRUE, Token(n), TRUE, SiteLuid,
                                         Elem("caf<U+00E9>", XMLNS, <<>>, None, <<>>)))
      [] shape = "fault" -> Fault(401, "401001", "Login error", "Error signing in")
      [] shape = "fault_no_code" ->
             Response(401, FaultDoc(TRUE, Absent, "Login error", Absent))
      [] shape = "fault_bare" -> Response(503, FaultDoc(FALSE, Absent, "Unavailable", Absent))
      [] shape = "fault_not_xml" -> Response(502, NotXml)

\* No answer at all: the connection failed, and requests raises ConnectionError
\* instead of returning a response.
NoAnswer == Response(0, EmptyBody)
ConnectionError == Raise("ConnectionError", "")

\* POST /api/{version}/auth/signin as the peer serves it: the answer of the shape
\* when the request names the credentials and the site the peer has, a fault when
\* it does not.
TableauSignIn(xml_request, shape, n) ==
    LET KnownSite(cred, site) ==
            /\ cred # NoElement /\ site # NoElement
            /\ Get(cred, "personalAccessTokenName", Absent) = TABLEAU_USERNAME
            /\ Get(cred, "personalAccessTokenSecret", Absent) = TABLEAU_PASSWORD
            /\ Get(site, "contentUrl", Absent) = SiteContentUrl
        KnownCredentials(cred) == KnownSite(cred, First(Matching(cred.kids, "", "site")))
        Known(request_body) ==
            /\ request_body.wf /\ request_body.root.tag = "tsRequest"
            /\ KnownCredentials(First(Matching(request_body.root.kids, "", "credentials")))
    IN  IF shape = "no_answer" THEN NoAnswer
        ELSE IF Known(Parse(xml_request)) THEN SignInAnswer(shape, n)
        ELSE Fault(401, "401001", "Login error", "Error signing in")

\* The peer accepts a token it has issued until a sign-out invalidates it.
IssuedTokens == UNION { {Token(k), Token(k) \o "<U+00E9>"} : k \in 1..signins }
Authenticated(auth) == auth \notin revoked /\ auth \in IssuedTokens

\* How the peer answers a resource call: by its rules, or (forced) with one answer
\* whatever the request (an outage, a refusal, a failed connection).
Honest == [forced |-> FALSE, response |-> NoAnswer]
Forced(response) == [forced |-> TRUE, response |-> response]

\* The checks every authenticated resource call passes first.
Gate(call) ==
    CASE ~Authenticated(call.auth) ->
             Fault(401, "401002", "Unauthorized Access", "Invalid authentication credentials")
      [] call.path[4] # SiteLuid ->
             Fault(404, "404000", "Resource Not Found", "Site could not be found")
      [] OTHER -> NoAnswer

WebhookElem(wh, withDestination) ==
    Elem("webhook", XMLNS,
         << <<"id", Wire(wh.id)>>, <<"name", Wire(wh.name)>>, <<"event", Wire(wh.event)>> >>,
         None,
         <<Elem("webhook-destination", XMLNS, <<>>, None,
                IF withDestination
                THEN <<Elem("webhook-destination-http", XMLNS,
                            << <<"method", "POST">>, <<"url", Wire(wh.url)>> >>, None, <<>>)>>
                ELSE <<>>)>>)

\* An answer that leaves the stored webhooks as they are.
Refused(response) == [response |-> response, stored |-> webhooks]

\* POST /api/{version}/sites/{site}/webhooks as the peer serves it: the answer and
\* the webhooks it then stores.
TableauCreate(call, answer) ==
    LET NewWebhook(wh, http) ==
            [id |-> WebhookId(created + 1), name |-> Get(wh, "name", Absent),
             event |-> Get(wh, "event", Absent), url |-> Get(http, "url", Absent)]
        CreateStored(wh, http, new) ==
            IF \/ wh = NoElement \/ http = NoElement \/ new.name \in {Absent, ""}
               \/ new.url \in {Absent, ""} \/ new.event \notin VALID_TABLEAU_EVENTS
               \/ Get(http, "method", Absent) # "POST"
            THEN Refused(Fault(400, "400000", "Bad Request", "Payload is invalid"))
            ELSE IF created >= MaxWebhooks
            THEN Refused(Fault(409, "409000", "Conflict", "Webhook quota reached"))
            ELSE [response |-> Response(201, Doc(TsResponse(<<WebhookElem(new, TRUE)>>))),
                  stored |-> Append(webhooks, new)]
        CreateDestination(wh, http) == CreateStored(wh, http, NewWebhook(wh, http))
        CreateWebhook(wh) ==
            CreateDestination(wh, First(Matching(Descendants(wh), "",
                                                 "webhook-destination-http")))
        CreateParsed(request_body) ==
            CreateWebhook(First(Matching(request_body.root.kids, "", "webhook")))
        CreateGated(gate) ==
            IF gate.status_code # 0 THEN Refused(gate) ELSE CreateParsed(Parse(call.xml))
    IN  IF answer.forced THEN Refused(answer.response) ELSE CreateGated(Gate(call))

\* The ways the peer may answer a list call.
ListShapes == { "ok", "no_destination", "not_xml" }

\* GET /api/{version}/sites/{site}/webhooks as the peer serves it.
TableauList(call, answer, shape) ==
    LET ListGated(gate) ==
            IF gate.status_code # 0 THEN gate
            ELSE IF shape = "not_xml" THEN Response(200, NotXml)
            ELSE Response(200, Doc(TsResponse(
                     <<Elem("webhooks", XMLNS, <<>>, None,
                            [i \in 1..Len(webhooks) |->
                                WebhookElem(webhooks[i], shape # "no_destination")])>>)))
    IN  IF answer.forced THEN answer.response ELSE ListGated(Gate(call))

\* DELETE /api/{version}/sites/{site}/webhooks/{id} as the peer serves it.
TableauDelete(call, answer) ==
    LET DeleteGated(gate, id) ==
            IF gate.status_code # 0 THEN Refused(gate)
            ELSE IF \A i \in 1..Len(webhooks) : webhooks[i].id # id
            THEN Refused(Fault(404, "404030", "Resource Not Found",
                               "Webhook could not be found"))
            ELSE [response |-> Response(204, EmptyBody),
                  stored |-> SelectSeq(webhooks, LAMBDA x : x.id # id)]
    IN  IF answer.forced THEN Refused(answer.response)
        ELSE DeleteGated(Gate(call), call.path[6])

\* --------------------------------------------------------------- calls
\* The json of a call that carries none.
NoJson == [channel |-> None, attachments |-> <<>>]

\* One network call as issued, with the answer it got.  auth is the value of the
\* X-Tableau-Auth header (None: requests drops a header whose value is None), xml
\* the body as written on the wire.
Call(peer, method, base, path, auth, xml, json, response) ==
    [peer |-> peer, method |-> method, base |-> base, path |-> path, auth |-> auth,
     xml |-> xml, json |-> json, response |-> response]

\* A call repeated once after an error status (the variant C4 is checked against).
IssueWithRetry(log, call) ==
    IF call.response.status_code >= 400 THEN Append(Append(log, call), call)
    ELSE Append(log, call)

\* requests.post / get / delete: the call goes out once and is answered once.
Issue(log, call) == Append(log, call)

\* ------------------------------------------------------------- sign_in
\* Lines 124-127: the sign-in request.
SignInRequest(username, password, site) ==
    Elem("tsRequest", "", <<>>, None,
         <<Elem("credentials", "",
                << <<"personalAccessTokenName", username>>,
                   <<"personalAccessTokenSecret", password>> >>, None,
                <<Elem("site", "", << <<"contentUrl", site>> >>, None, <<>>)>>)>>)

\* Lines 134-144: what sign_in reads from an answer that passed _check_status.
SignInDecode(server_response) ==
    LET SignInRead(credentials, site) ==
            IF credentials = NoElement \/ site = NoElement
            THEN [exc |-> Raise("AttributeError", "'NoneType' object has no attribute 'get'"),
                  token |-> None, site_id |-> None]
            ELSE [exc |-> NoException, token |-> Get(credentials, "token", None),
                  site_id |-> Get(site, "id", None)]
        SignInParsed(parsed_response) ==
            IF ~parsed_response.wf
            THEN [exc |-> Raise("ParseError", "not well-formed"),
                  token |-> None, site_id |-> None]
            ELSE SignInRead(FindChild(parsed_response.root, "credentials"),
                            FindDescendant(parsed_response.root, "site"))
    IN  SignInParsed(Parse(encode_for_display(server_response.text)))

\* sign_in(server, username, password, site), the peer answering in the given shape
\* with its n-th token: whether the call was issued (ET.tostring raises before it on
\* a value that is not a str; requests.post raises when no answer comes), the call,
\* what was raised, and the token and site id returned.
sign_in(server, username, password, site, shape, n) ==
    LET SignedIn(sent, call, exc, token, site_id) ==
            [sent |-> sent, call |-> call, exc |-> exc, token |-> token,
             site_id |-> site_id]
        SignInCall(xml, response) ==
            Call("tableau", "POST", server, <<"api", VERSION, "auth", "signin">>, None, xml,
                 NoJson, response)
        SignInDecoded(call, decoded) ==
            SignedIn(TRUE, call, decoded.exc, decoded.token, decoded.site_id)
        SignInChecked(call, status, server_response) ==
            IF status.type # "none" THEN SignedIn(TRUE, call, status, None, None)
            ELSE SignInDecoded(call, SignInDecode(server_response))
        SignInAnswered(xml, server_response) ==
            IF server_response = NoAnswer
            THEN SignedIn(TRUE, SignInCall(xml, NoAnswer), ConnectionError, None, None)
            ELSE SignInChecked(SignInCall(xml, server_response),
                               check_status(server_response, 200), server_response)
        SignInSent(xml_request) ==
            IF xml_request.exc.type # "none"
            THEN SignedIn(FALSE, SignInCall(xml_request.body, NoAnswer), xml_request.exc,
                          None, None)
            ELSE SignInAnswered(xml_request.body,
                                TableauSignIn(xml_request.body, shape, n))
    IN  SignInSent(Serialize(SignInRequest(username, password, site), "us-ascii"))

\* ------------------------------------------------------------ sign_out
\* POST /api/{version}/auth/signout as the peer serves it: the answer and the tokens
\* then invalidated.
TableauSignOut(call) ==
    IF Authenticated(call.auth)
    THEN [response |-> Response(204, EmptyBody), revoked |-> revoked \cup {call.auth}]
    ELSE [response |-> Fault(401, "401002", "Unauthorized Access",
                             "Invalid authentication credentials"),
          revoked |-> revoked]

\* sign_out(server, auth_token): the call issued, what was raised, and the tokens the
\* peer has invalidated afterwards.
sign_out(server, auth_token) ==
    LET SignedOut(sent, served) ==
            [call |-> [sent EXCEPT !.response = served.response],
             exc |-> check_status(served.response, 204),
             revoked |-> served.revoked]
        SignOutSent(sent) == SignedOut(sent, TableauSignOut(sent))
    IN  SignOutSent(Call("tableau", "POST", server, <<"api", VERSION, "auth", "signout">>,
                         auth_token, EmptyBody, NoJson, NoAnswer))

\* ------------------------------------------------------------ responses
\* What a handler returns: the HTTP status and the JSON body's keys.  keys is the
\* set of keys the body has; text is the `error` value when it is a remote body.
Result(code, keys, status, error, text, listed, exc) ==
    [code |-> code, keys |-> keys, status |-> status, error |-> error, text |-> text,
     webhooks |-> listed, exc |-> exc]

NoResult == Result(0, {}, None, None, EmptyBody, <<>>, NoException)

\* jsonify({'status': 'success'}), code
Success(code) == Result(code, {"status"}, "success", None, EmptyBody, <<>>, NoException)

\* jsonify({'status': 'failure', 'error': message}), code
Failure(code, message) ==
    Result(code, {"status", "error"}, "failure", message, EmptyBody, <<>>, NoException)

\* A fixed message in place of the remote body (the variant C5 is checked against).
FailureTextDropped(code, text) ==
    Result(code, {"status", "error"}, "failure", "request failed", EmptyBody, <<>>, NoException)

\* jsonify({'status': 'failure', 'error': response.text}), code
FailureText(code, text) ==
    Result(code, {"status", "error"}, "failure", None, text, <<>>, NoException)

\* An exception no handler catches: Flask answers 500 with its own error page.
Unhandled(exc) == Result(500, {}, None, None, EmptyBody, <<>>, exc)

\* request.json when the body is a JSON object; a key the caller left out is Missing,
\* a JSON null is None.
Json(name, event, destination_url, webhook_id, event_type, text, resource_name) ==
    [type |-> "dict", name |-> name, event |-> event, destination_url |-> destination_url,
     webhook_id |-> webhook_id, event_type |-> event_type, text |-> text,
     resource_name |-> resource_name]

\* request.json when the body is another JSON value, by the name of its type: an
\* array (list), a string (str), a number (int, float), true or false (bool), null
\* (NoneType).
NonObject(type) ==
    [Json(Missing, Missing, Missing, Missing, Missing, Missing, Missing) EXCEPT !.type = type]

\* data.get on a value that is not a dict (lines 167, 207, 282).
NoGet(data) ==
    Raise("AttributeError", "'" \o data.type \o "' object has no attribute 'get'")

NoRequest ==
    [op |-> "none", data |-> Json(Missing, Missing, Missing, Missing, Missing, Missing, Missing)]
NoSession == [token |-> None, site_id |-> None]

\* The handler returns: the worker holds the response until it is sent.
Return(w, res) ==
    /\ pc' = [pc EXCEPT ![w] = "done"]
    /\ result' = [result EXCEPT ![w] = res]

\* The values TABLEAU_SITE_ID may have: unset, or the content URL of the site.
SiteIds == { None, SiteContentUrl }

\* sign_in as every handler calls it (lines 234, 261, 288), on the configured server
\* and credentials: its outcome for each site configured, each shape of answer and
\* each token of the peer.
SignIns ==
    [site \in SiteIds, shape \in SignInShapes, n \in 1..MaxSignIns |->
        sign_in(TABLEAU_SERVER, TABLEAU_USERNAME, TABLEAU_PASSWORD, site, shape, n)]

\* `token, site_id = sign_in(...)` as the first network call of a registry handler:
\* an exception ends the request, otherwise the locals are bound.
SignInFirst(w, op, data, shape) ==
    LET Bind(s) ==
            /\ request' = [request EXCEPT ![w] = [op |-> op, data |-> data]]
            /\ calls' = [calls EXCEPT ![w] = IF s.sent THEN Issue(<<>>, s.call) ELSE <<>>]
            /\ signins' = IF s.sent /\ IssuesToken(s.call.response) THEN signins + 1
                          ELSE signins
            /\ IF s.exc.type # "none"
               THEN /\ Return(w, Unhandled(s.exc))
                    /\ UNCHANGED session
               ELSE /\ pc' = [pc EXCEPT ![w] = "signed_in"]
                    /\ session' = [session EXCEPT ![w] =
                                      [token |-> s.token, site_id |-> s.site_id]]
                    /\ UNCHANGED result
            /\ UNCHANGED <<TABLEAU_SITE_ID, webhooks, created, roundtrip, cs_response,
                           cs_code, cs_result, revoked>>
    IN  /\ signins < MaxSignIns
        /\ Bind(SignIns[TABLEAU_SITE_ID, shape, signins + 1])

\* A request answered without any network call.
Reject(w, op, data, res) ==
    /\ request' = [request EXCEPT ![w] = [op |-> op, data |-> data]]
    /\ Return(w, res)
    /\ UNCHANGED <<TABLEAU_SITE_ID, session, calls, webhooks, created, signins, roundtrip,
                   cs_response, cs_code, cs_result, revoked>>

\* ------------------------------------------------------------- /webhook
\* Lines 172-188: the Slack message.
SlackData(event_type, text, resource_name) ==
    [channel |-> SLACK_CHANNEL,
     attachments |-> << [fallback |-> Str(event_type) \o " - " \o Str(resource_name),
                         color |-> SLACK_COLOR,
                         pretext |-> Str(event_type) \o ":",
                         fields |-> << [title |-> resource_name, value |-> text,
                                        short |-> FALSE] >>] >>]

\* Line 189: the POST to Slack.
SlackCall(slack_data, slack_response) ==
    Call("slack", "POST", SLACK_WEBHOOK_URL, <<>>, None, EmptyBody, slack_data, slack_response)

\* The relay answering success whatever Slack said (the variant C7 is checked against).
webhook_unchecked(w, data, slack_response) ==
    /\ pc[w] = "idle"
    /\ IF data.type # "dict"
       THEN Reject(w, "relay", data, Unhandled(NoGet(data)))
       ELSE /\ request' = [request EXCEPT ![w] = [op |-> "relay", data |-> data]]
            /\ calls' = [calls EXCEPT ![w] =
                            Issue(<<>>, SlackCall(
                                SlackData(JsonGet(data, "event_type", "Unknown Event"),
                                          JsonGet(data, "text",
                                                  "No additional information provided."),
                                          JsonGet(data, "resource_name", "Unknown Resource")),
                                slack_response))]
            /\ Return(w, Success(200))
            /\ UNCHANGED <<TABLEAU_SITE_ID, session, webhooks, created, signins, roundtrip,
                           cs_response, cs_code, cs_result, revoked>>

\* webhook(): the relay, one POST to Slack and the answer built from Slack's; the
\* POST raising (no answer came) ends the request in that exception.
webhook(w, data, slack_response) ==
    /\ pc[w] = "idle"
    /\ IF data.type # "dict"
       THEN Reject(w, "relay", data, Unhandled(NoGet(data)))
       ELSE /\ request' = [request EXCEPT ![w] = [op |-> "relay", data |-> data]]
            /\ calls' = [calls EXCEPT ![w] =
                            Issue(<<>>, SlackCall(
                                SlackData(JsonGet(data, "event_type", "Unknown Event"),
                                          JsonGet(data, "text",
                                                  "No additional information provided."),
                                          JsonGet(data, "resource_name", "Unknown Resource")),
                                slack_response))]
            /\ IF slack_response = NoAnswer
               THEN Return(w, Unhandled(ConnectionError))
               ELSE IF slack_response.status_code = 200
               THEN Return(w, Success(200))
               ELSE Return(w, FailureText(500, slack_response.text))
            /\ UNCHANGED <<TABLEAU_SITE_ID, session, webhooks, created, signins, roundtrip,
                           cs_response, cs_code, cs_result, revoked>>

\* ------------------------------------------------ /create_tableau_webhook
\* The validation without the membership check (the variant C1 is checked against).
CreateValidationAnyEvent(webhook_name, event_type, destination_url) ==
    CASE Falsy(webhook_name) -> Failure(400, "Webhook name is required")
      [] Falsy(event_type) -> Failure(400, "Event type is required")
      [] Falsy(destination_url) -> Failure(400, "Destination URL is required")
      [] OTHER -> NoResult

\* Lines 211-228: the first failing check's answer, or NoResult when all pass.
CreateValidation(webhook_name, event_type, destination_url) ==
    CASE Falsy(webhook_name) -> Failure(400, "Webhook name is required")
      [] Falsy(event_type) -> Failure(400, "Event type is required")
      [] event_type \notin VALID_TABLEAU_EVENTS ->
             Failure(400, "Invalid event type: " \o Str(event_type)
                          \o ". Please refer to the valid event types: "
                          \o "https://help.tableau.com/current/developer/webhooks/en-us/docs/webhooks-events-payload.html")
      [] Falsy(destination_url) -> Failure(400, "Destination URL is required")
      [] OTHER -> NoResult

\* Lines 235-238: the create request.
CreatePayload(webhook_name, event_type, destination_url) ==
    Elem("tsRequest", "", <<>>, None,
         <<Elem("webhook", "", << <<"name", webhook_name>>, <<"event", event_type>> >>, None,
                <<Elem("webhook-destination", "", <<>>, None,
                       <<Elem("webhook-destination-http", "",
                              << <<"method", "POST">>, <<"url", destination_url>> >>,
                              None, <<>>)>>)>>)>>)

\* A module-level token shared by every request (the variant C10 is checked against).
AuthHeaderShared(w) == IF signins = 0 THEN None ELSE Token(signins)

\* Lines 243-246, 290-293 and 263: the X-Tableau-Auth header of worker w's call.
AuthHeader(w) == session[w].token

\* Lines 242, 262: the webhooks collection of the signed-in site.
WebhooksPath(site_id) == <<"api", VERSION, "sites", Str(site_id), "webhooks">>

\* create_tableau_webhook(), up to and including the sign-in (lines 203-234).
create_tableau_webhook(w, data, shape) ==
    LET CreateValidated(v) ==
            IF v # NoResult THEN Reject(w, "create", data, v)
            ELSE SignInFirst(w, "create", data, shape)
    IN  /\ pc[w] = "idle"
        /\ IF data.type # "dict"
           THEN Reject(w, "create", data, Unhandled(NoGet(data)))
           ELSE CreateValidated(CreateValidation(DictGet(data, "name"),
                                                 DictGet(data, "event"),
                                                 DictGet(data, "destination_url")))

\* create_tableau_webhook(), from the payload to the answer (lines 235-254):
\* ET.tostring raising ends the request before the call; otherwise the call is logged,
\* the peer stores the webhook it accepted, and the answer is built from the status
\* (requests.post raising when no answer came).
create_tableau_webhook_post(w, answer) ==
    LET data == request[w].data
        CreateCall(xml) ==
            Call("tableau", "POST", TABLEAU_SERVER, WebhooksPath(session[w].site_id),
                 AuthHeader(w), xml, NoJson, NoAnswer)
        CreateAnswered(sent, served) ==
            /\ calls' = [calls EXCEPT ![w] =
                            Issue(@, [sent EXCEPT !.response = served.response])]
            /\ webhooks' = served.stored
            /\ created' = IF served.stored # webhooks THEN created + 1 ELSE created
            /\ roundtrip' = IF served.stored # webhooks /\ served.response.status_code = 201
                            THEN roundtrip \cup
                                 {[id |-> WebhookId(created + 1),
                                   name |-> DictGet(data, "name"),
                                   event |-> DictGet(data, "event"),
                                   url |-> DictGet(data, "destination_url")]}
                            ELSE roundtrip
            /\ IF served.response = NoAnswer
               THEN Return(w, Unhandled(ConnectionError))
               ELSE IF served.response.status_code = 201
               THEN Return(w, Success(201))
               ELSE Return(w, FailureText(500, served.response.text))
        CreateSent(sent) == CreateAnswered(sent, TableauCreate(sent, answer))
        CreatePosted(xml_payload) ==
            IF xml_payload.exc.type # "none"
            THEN /\ Return(w, Unhandled(xml_payload.exc))
                 /\ UNCHANGED <<calls, webhooks, created, roundtrip>>
            ELSE CreateSent(CreateCall(xml_payload.body))
    IN  /\ pc[w] = "signed_in"
        /\ request[w].op = "create"
        /\ CreatePosted(Serialize(CreatePayload(DictGet(data, "name"),
                                                DictGet(data, "event"),
                                                DictGet(data, "destination_url")),
                                  "utf-8"))
        /\ UNCHANGED <<TABLEAU_SITE_ID, request, session, signins, cs_response, cs_code,
                       cs_result, revoked>>

\* ------------------------------------------------- /list_tableau_webhooks
\* The url read from the webhook element itself (the variant C3 is checked against).
ListDecodeOwnUrl(text) ==
    LET root == Parse(text)
        found == FindAll(root.root, "webhook")
    IN  IF ~root.wf THEN [exc |-> Raise("ParseError", "not well-formed"), webhooks |-> <<>>]
        ELSE [exc |-> NoException,
              webhooks |-> [i \in 1..Len(found) |->
                               [id |-> Get(found[i], "id", None),
                                name |-> Get(found[i], "name", None),
                                event |-> Get(found[i], "event", None),
                                url |-> Get(found[i], "url", None)]]]

\* Lines 265-274: the descriptors read from the list answer, or the AttributeError of
\* a webhook element without a webhook-destination-http descendant.
ListDecode(text) ==
    LET Descriptor(e, destination) ==
            [id |-> Get(e, "id", None), name |-> Get(e, "name", None),
             event |-> Get(e, "event", None), url |-> Get(destination, "url", None)]
        ListRead(found) ==
            IF \E i \in 1..Len(found) :
                   FindDescendant(found[i], "webhook-destination-http") = NoElement
            THEN [exc |-> Raise("AttributeError", "'NoneType' object has no attribute 'get'"),
                  webhooks |-> <<>>]
            ELSE [exc |-> NoException,
                  webhooks |-> [i \in 1..Len(found) |->
                                   Descriptor(found[i],
                                              FindDescendant(found[i],
                                                             "webhook-destination-http"))]]
        ListParsed(root) ==
            IF ~root.wf
            THEN [exc |-> Raise("ParseError", "not well-formed"), webhooks |-> <<>>]
            ELSE ListRead(FindAll(root.root, "webhook"))
    IN  ListParsed(Parse(text))

\* list_tableau_webhooks(), the sign-in (line 261).
list_tableau_webhooks(w, shape) ==
    /\ pc[w] = "idle"
    /\ SignInFirst(w, "list", NoRequest.data, shape)

\* list_tableau_webhooks(), from the GET to the answer (lines 262-276): the call is
\* logged (requests.get raising when no answer came), the status checked, the
\* descriptors decoded.
list_tableau_webhooks_get(w, answer, shape) ==
    LET ListCall ==
            Call("tableau", "GET", TABLEAU_SERVER, WebhooksPath(session[w].site_id),
                 AuthHeader(w), EmptyBody, NoJson, NoAnswer)
        ListReturn(decoded) ==
            IF decoded.exc.type # "none" THEN Return(w, Unhandled(decoded.exc))
            ELSE Return(w, Result(200, {"status", "webhooks"}, "success", None, EmptyBody,
                                  decoded.webhooks, NoException))
        ListChecked(status, server_response) ==
            IF status.type # "none" THEN Return(w, Unhandled(status))
            ELSE ListReturn(ListDecode(server_response.text))
        ListAnswered(sent, server_response) ==
            /\ calls' = [calls EXCEPT ![w] =
                            Issue(@, [sent EXCEPT !.response = server_response])]
            /\ IF server_response = NoAnswer THEN Return(w, Unhandled(ConnectionError))
               ELSE ListChecked(check_status(server_response, 200), server_response)
        ListSent(sent) == ListAnswered(sent, TableauList(sent, answer, shape))
    IN  /\ pc[w] = "signed_in"
        /\ request[w].op = "list"
        /\ ListSent(ListCall)
        /\ UNCHANGED <<TABLEAU_SITE_ID, request, session, webhooks, created, signins,
                       roundtrip, cs_response, cs_code, cs_result, revoked>>

\* ------------------------------------------------ /delete_tableau_webhook
\* delete_tableau_webhook(), up to and including the sign-in (lines 281-288).
delete_tableau_webhook(w, data, shape) ==
    /\ pc[w] = "idle"
    /\ CASE data.type # "dict" -> Reject(w, "delete", data, Unhandled(NoGet(data)))
         [] data.type = "dict" /\ Falsy(DictGet(data, "webhook_id")) ->
                Reject(w, "delete", data,
                       Failure(400, "Missing required parameters: site_id or webhook_id"))
         [] OTHER -> SignInFirst(w, "delete", data, shape)

\* delete_tableau_webhook(), from the DELETE to the answer (lines 289-301): the call
\* is logged (requests.delete raising when no answer came) and the answer built from
\* the status.
delete_tableau_webhook_delete(w, answer) ==
    LET DeleteCall(webhook_id) ==
            Call("tableau", "DELETE", TABLEAU_SERVER,
                 Append(WebhooksPath(session[w].site_id), Str(webhook_id)),
                 AuthHeader(w), EmptyBody, NoJson, NoAnswer)
        DeleteAnswered(webhook_id, sent, served) ==
            /\ calls' = [calls EXCEPT ![w] =
                            Issue(@, [sent EXCEPT !.response = served.response])]
            /\ webhooks' = served.stored
            /\ roundtrip' = IF served.stored # webhooks
                            THEN { c \in roundtrip : c.id # Str(webhook_id) }
                            ELSE roundtrip
            /\ IF served.response = NoAnswer
               THEN Return(w, Unhandled(ConnectionError))
               ELSE IF served.response.status_code = 204
               THEN Return(w, Success(204))
               ELSE Return(w, FailureText(served.response.status_code,
                                          served.response.text))
        DeleteSent(webhook_id, sent) ==
            DeleteAnswered(webhook_id, sent, TableauDelete(sent, answer))
        DeleteOf(webhook_id) == DeleteSent(webhook_id, DeleteCall(webhook_id))
    IN  /\ pc[w] = "signed_in"
        /\ request[w].op = "delete"
        /\ DeleteOf(DictGet(request[w].data, "webhook_id"))
        /\ UNCHANGED <<TABLEAU_SITE_ID, request, session, created, signins, cs_response,
                       cs_code, cs_result, revoked>>

\* The response is sent and the worker takes the next request with fresh locals.
respond(w) ==
    /\ pc[w] = "done"
    /\ pc' = [pc EXCEPT ![w] = "idle"]
    /\ request' = [request EXCEPT ![w] = NoRequest]
    /\ session' = [session EXCEPT ![w] = NoSession]
    /\ calls' = [calls EXCEPT ![w] = <<>>]
    /\ result' = [result EXCEPT ![w] = NoResult]
    /\ UNCHANGED <<TABLEAU_SITE_ID, webhooks, created, signins, roundtrip, cs_response,
                   cs_code, cs_result, revoked>>

\* --------------------------------------------------------- the service
Workers == 1..NumWorkers

\* Not yet called.
Pending == Raise("pending", "")

\* The service after start-up (lines 13-33 let TABLEAU_SITE_ID be unset): every
\* worker idle, the peer with no webhooks and no tokens issued.
ServiceInit ==
    /\ TABLEAU_SITE_ID \in SiteIds
    /\ pc = [w \in Workers |-> "idle"]
    /\ request = [w \in Workers |-> NoRequest]
    /\ session = [w \in Workers |-> NoSession]
    /\ calls = [w \in Workers |-> <<>>]
    /\ result = [w \in Workers |-> NoResult]
    /\ webhooks = <<>>
    /\ created = 0
    /\ signins = 0
    /\ revoked = {}
    /\ roundtrip = {}

Init ==
    /\ ServiceInit
    /\ cs_response = NoAnswer
    /\ cs_code = 0
    /\ cs_result = Pending

\* The bodies that are not a JSON object.
NonObjects == { NonObject(type) : type \in {"list", "str", "int", "NoneType"} }

\* The request bodies and the peers' answers the service is driven with.
CreateRequests ==
    { Json(n, e, u, Missing, Missing, Missing, Missing) :
        n \in {Missing, None, "", "R&D caf<U+00E9>", NonStr("int", "123"),
               NonStr("float", "-0.0"), NonStr("list", "[1]"), NonStr("list", "['&']")},
        e \in {Missing, None, "", "NotAnEvent", "WorkbookRefreshFailed", NonStr("int", "7"),
               NonStr("float", "-0.0")},
        u \in {Missing, None, "", "https://relay.example/webhook", NonStr("int", "5"),
               NonStr("float", "-0.0"), NonStr("dict", "{'>': 1}")} }
    \cup NonObjects

DeleteRequests ==
    { Json(Missing, Missing, Missing, id, Missing, Missing, Missing) :
        id \in {Missing, None, "", WebhookId(1), WebhookId(2), "wh-unknown",
                NonStr("int", "0"), NonStr("float", "-0.0"), NonStr("int", "17")} }
    \cup NonObjects

RelayRequests ==
    { Json(Missing, Missing, Missing, Missing, e, t, r) :
        e \in {Missing, None, "NotAnEvent", "WorkbookRefreshFailed", NonStr("int", "7")},
        t \in {Missing, None, "boom"},
        r \in {Missing, None, "Sales"} }
    \cup NonObjects

\* Slack's answers, and no answer at all.
SlackAnswers ==
    { Response(200, Text("ok")), Response(400, Text("invalid_payload")),
      Response(404, Text("channel_not_found")), Response(500, Text("internal_error")),
      NoAnswer }

ResourceAnswers ==
    { Honest,
      Forced(Fault(403, "403004", "Forbidden", "Not allowed on this site")),
      Forced(Response(500, FaultDoc(TRUE, Absent, "Internal Server Error", Absent))),
      Forced(Response(502, NotXml)),
      Forced(Response(502, HtmlPage)),
      Forced(NoAnswer) }

\* One request at a time, every input and every answer.
Next ==
    \E w \in {1} :
        \/ \E data \in RelayRequests, slack_response \in SlackAnswers :
               webhook(w, data, slack_response)
        \/ \E data \in CreateRequests, shape \in SignInShapes :
               create_tableau_webhook(w, data, shape)
        \/ \E answer \in ResourceAnswers : create_tableau_webhook_post(w, answer)
        \/ \E shape \in SignInShapes : list_tableau_webhooks(w, shape)
        \/ \E answer \in ResourceAnswers, shape \in ListShapes :
               list_tableau_webhooks_get(w, answer, shape)
        \/ \E data \in DeleteRequests, shape \in SignInShapes :
               delete_tableau_webhook(w, data, shape)
        \/ \E answer \in ResourceAnswers : delete_tableau_webhook_delete(w, answer)
        \/ respond(w)

Spec == Init /\ [][Next]_vars

\* Concurrent administrative requests: every worker serves requests, the calls of
\* different requests interleaving in any order.
AdminCreate == Json("Sales alert", "WorkbookRefreshFailed", "https://relay.example/webhook",
                    Missing, Missing, Missing, Missing)
AdminDelete == Json(Missing, Missing, Missing, WebhookId(1), Missing, Missing, Missing)
AdminShapes == { "ok", "no_token", "fault" }
AdminAnswers == { Honest }

NextConcurrent ==
    \E w \in Workers :
        \/ \E shape \in AdminShapes : create_tableau_webhook(w, AdminCreate, shape)
        \/ \E answer \in AdminAnswers : create_tableau_webhook_post(w, answer)
        \/ \E shape \in AdminShapes : list_tableau_webhooks(w, shape)
        \/ \E answer \in AdminAnswers : list_tableau_webhooks_get(w, answer, "ok")
        \/ \E shape \in AdminShapes : delete_tableau_webhook(w, AdminDelete, shape)
        \/ \E answer \in AdminAnswers : delete_tableau_webhook_delete(w, answer)
        \/ respond(w)

SpecConcurrent == Init /\ [][NextConcurrent]_vars

\* _check_status called directly on every status, expected code and body.
CheckBodies ==
    { FaultDoc(TRUE, c, s, d) :
        c \in {Absent, "404003"},
        s \in {Absent, None, "Not Found"},
        d \in {Absent, None, "No such webhook"} }
    \cup { FaultDoc(FALSE, Absent, s, d) :
             s \in {Absent, None, "Not Found"},
             d \in {Absent, None, "No such webhook"} }
    \cup { NotXml, EmptyBody, HtmlPage }

InitCheckStatus ==
    /\ ServiceInit
    /\ cs_response \in { Response(st, b) : st \in {200, 201, 204, 401, 404}, b \in CheckBodies }
    /\ cs_code \in {200, 201, 204}
    /\ cs_result = Pending

check_status_call ==
    /\ cs_result = Pending
    /\ cs_result' = check_status(cs_response, cs_code)
    /\ UNCHANGED <<TABLEAU_SITE_ID, pc, request, session, calls, result, webhooks, created,
                   signins, roundtrip, cs_response, cs_code, revoked>>

NextCheckStatus == check_status_call

SpecCheckStatus == InitCheckStatus /\ [][NextCheckStatus]_vars

\* sign_out called by a user of the module (no route calls it): the answer it
\* checked and what it raised are kept in cs_response, cs_code and cs_result.
sign_out_call(auth_token) ==
    LET SignOutReturned(s) ==
            /\ cs_response' = s.call.response
            /\ cs_code' = 204
            /\ cs_result' = s.exc
            /\ revoked' = s.revoked
            /\ UNCHANGED <<TABLEAU_SITE_ID, pc, request, session, calls, result, webhooks,
                           created, signins, roundtrip>>
    IN  SignOutReturned(sign_out(TABLEAU_SERVER, auth_token))

\* Every route, with sign-outs of the tokens in between the calls.
NextSignOut ==
    \/ \E w \in {1} :
           \/ \E slack_response \in {Response(200, Text("ok"))} :
                  webhook(w, Json(Missing, Missing, Missing, Missing,
                                  "WorkbookRefreshFailed", "boom", "Sales"), slack_response)
           \/ \E shape \in AdminShapes : list_tableau_webhooks(w, shape)
           \/ list_tableau_webhooks_get(w, Honest, "ok")
           \/ \E shape \in AdminShapes : create_tableau_webhook(w, AdminCreate, shape)
           \/ create_tableau_webhook_post(w, Honest)
           \/ \E shape \in AdminShapes : delete_tableau_webhook(w, AdminDelete, shape)
           \/ delete_tableau_webhook_delete(w, Honest)
           \/ respond(w)
    \/ \E auth_token \in {None, "token-0"} \cup { Token(k) : k \in 1..signins } :
           sign_out_call(auth_token)

SpecSignOut == Init /\ [][NextSignOut]_vars

\* =============================================================== claims
\* What a logged call is, read off what went on the wire.
IsSignIn(c) ==
    c.peer = "tableau" /\ c.method = "POST" /\ c.path = <<"api", VERSION, "auth", "signin">>
IsResource(c, method, len) ==
    /\ c.peer = "tableau" /\ c.method = method /\ Len(c.path) = len
    /\ c.path[3] = "sites" /\ c.path[5] = "webhooks"
IsCreate(c) == IsResource(c, "POST", 5)
IsList(c) == IsResource(c, "GET", 5)
IsDelete(c) == IsResource(c, "DELETE", 6)

\* The status the handler takes for success on a call.
Expected(c) == CASE IsCreate(c) -> 201 [] IsDelete(c) -> 204 [] OTHER -> 200

\* Tableau answered the call with a non-success status and an XML fault body.
Faulted(c) ==
    c.peer = "tableau" /\ c.response.status_code # Expected(c) /\ Parse(c.response.text).wf

\* Worker w has answered a request of the operation.
Done(w, op) == pc[w] = "done" /\ request[w].op = op

\* The body of the request is a JSON object.
IsObject(d) == d.type = "dict"

\* A field of the request that is empty or absent (left out, null or "").
Empty(x) == x \in {Missing, None, ""}

InvalidCreate(d) ==
    \/ Empty(d.name) \/ Empty(d.event) \/ d.event \notin VALID_TABLEAU_EVENTS
    \/ Empty(d.destination_url)

\* The token and the site id a sign-in answer carries (None when left out).
AnswerToken(c) == Get(FindChild(c.response.text.root, "credentials"), "token", None)
AnswerSite(c) == Get(FindDescendant(c.response.text.root, "site"), "id", None)

\* C1 as claimed: a create request that fails validation (name, event or
\* destination_url empty or absent, or event outside the fixed set) and a delete request
\* with an empty or absent webhook_id are answered 400 without any network call.  A
\* body that is not a JSON object has none of the fields.
C1_Original ==
    \A w \in Workers :
        /\ Done(w, "create") /\ InvalidCreate(request[w].data) =>
               result[w].code = 400 /\ result[w].status = "failure" /\ calls[w] = <<>>
        /\ Done(w, "delete") /\ Empty(request[w].data.webhook_id) =>
               result[w].code = 400 /\ result[w].status = "failure" /\ calls[w] = <<>>

\* What a request with such a body is answered: 400 failure when the body is a JSON
\* object, the uncaught AttributeError of data.get (500) when it is not.
Refusal(w) ==
    IF IsObject(request[w].data)
    THEN result[w].code = 400 /\ result[w].status = "failure" /\ "error" \in result[w].keys
    ELSE result[w].code = 500 /\ result[w].exc.type = "AttributeError"

\* C1 amended: such a create request and such a delete request issue no network call;
\* they are answered 400 when the body is a JSON object, and 500 (AttributeError) when
\* the body is another JSON value.
C1_InvalidRequestNoCall ==
    \A w \in Workers :
        /\ Done(w, "create") /\ InvalidCreate(request[w].data) =>
               calls[w] = <<>> /\ Refusal(w)
        /\ Done(w, "delete") /\ Empty(request[w].data.webhook_id) =>
               calls[w] = <<>> /\ Refusal(w)

C1_Witness ==
    \E w \in Workers :
        /\ Done(w, "create") /\ IsObject(request[w].data)
        /\ request[w].data.event = "NotAnEvent"
        /\ ~Empty(request[w].data.name) /\ ~Empty(request[w].data.destination_url)
        /\ result[w].code = 400 /\ calls[w] = <<>>

\* C2 as claimed, on a create request that passed validation and that Tableau
\* accepted: one sign-in and then one create call were issued, and the answer carries
\* the id the server assigned.
C2_Original ==
    \A w \in Workers :
        Done(w, "create") /\ ~InvalidCreate(request[w].data) /\ result[w].code = 201 =>
            /\ Len(calls[w]) = 2 /\ IsSignIn(calls[w][1]) /\ IsCreate(calls[w][2])
            /\ "id" \in result[w].keys

\* The create that shows it: Tableau answered 201 with the webhook under its id wh-1,
\* and the answer to the caller has the key status only.
C2_Witness ==
    \E w \in Workers :
        /\ Done(w, "create") /\ Len(calls[w]) = 2 /\ result[w].code = 201
        /\ IsSignIn(calls[w][1]) /\ IsCreate(calls[w][2])
        /\ Get(FindDescendant(calls[w][2].response.text.root, "webhook"), "id", None)
               = WebhookId(1)
        /\ result[w].keys = {"status"}

C4_Original ==
    \A w \in Workers :
        pc[w] = "done" /\ request[w].op \in {"create", "list", "delete"} =>
            \A i \in 1..Len(calls[w]) :
                Faulted(calls[w][i]) => result[w].code = 500 /\ i = Len(calls[w])

\* C4 amended: no call follows the failing one; a failing sign-in or list call ends the
\* request in an uncaught ApiCallError (answered 500); a failing create call is answered
\* 500 with the remote body as the error; a failing DELETE is answered with Tableau's
\* own status and the remote body as the error.
C4_FaultReported ==
    \A w \in Workers :
        pc[w] = "done" /\ request[w].op \in {"create", "list", "delete"} =>
            \A i \in 1..Len(calls[w]) :
                LET c == calls[w][i] IN
                Faulted(c) =>
                    /\ i = Len(calls[w])
                    /\ IsSignIn(c) \/ IsList(c) =>
                           /\ result[w].code = 500
                           /\ result[w].exc.type = "ApiCallError"
                    /\ IsCreate(c) =>
                           /\ result[w].code = 500 /\ "error" \in result[w].keys
                           /\ result[w].text = c.response.text
                    /\ IsDelete(c) =>
                           /\ result[w].code = c.response.status_code
                           /\ "error" \in result[w].keys
                           /\ result[w].text = c.response.text

C4_Witness ==
    \E w \in Workers :
        /\ Done(w, "delete") /\ Len(calls[w]) = 2 /\ Faulted(calls[w][2])
        /\ calls[w][2].response.status_code = 404 /\ result[w].code = 404

\* C5: deleting an id the server does not know (sign-in succeeds, the DELETE is answered
\* with a fault) returns the remote fault body, code, summary and detail included, as
\* the error of the answer.
C5_DeleteFaultVerbatim ==
    \A w \in Workers :
        Done(w, "delete") /\ Len(calls[w]) = 2 /\ Faulted(calls[w][2]) =>
            LET sent == Parse(calls[w][2].response.text).root
                got == Parse(result[w].text).root
            IN  /\ result[w].status = "failure" /\ "error" \in result[w].keys
                /\ result[w].text = calls[w][2].response.text
                /\ FaultCode(got) = FaultCode(sent)
                /\ FaultSummary(got) = FaultSummary(sent)
                /\ FaultDetail(got) = FaultDetail(sent)

C5_Witness ==
    \E w \in Workers :
        /\ Done(w, "delete") /\ request[w].data.webhook_id = "wh-unknown"
        /\ Len(calls[w]) = 2 /\ calls[w][2].response.status_code = 404
        /\ result[w].text =
               FaultDoc(TRUE, "404030", "Resource Not Found", "Webhook could not be found")

\* C6 as claimed: a notification whose event_type is unknown or absent is rejected
\* before any network call.
C6_Original ==
    \A w \in Workers :
        Done(w, "relay") /\ request[w].data.event_type \notin VALID_TABLEAU_EVENTS =>
            calls[w] = <<>>

\* C6 amended: the relay does not check event_type; a notification that is a JSON
\* object whose event_type is unknown or absent is posted to Slack once like any
\* other, a missing event_type rendered as "Unknown Event", a null one as "None" and a
\* number by its digits.  Only a body that is not a JSON object is not posted: it ends
\* in the AttributeError of data.get (500).
C6_UnknownEventRelayed ==
    \A w \in Workers :
        Done(w, "relay") /\ request[w].data.event_type \notin VALID_TABLEAU_EVENTS =>
            IF IsObject(request[w].data)
            THEN /\ Len(calls[w]) = 1 /\ calls[w][1].peer = "slack"
                 /\ calls[w][1].method = "POST"
                 /\ calls[w][1].json.attachments[1].pretext =
                        (CASE request[w].data.event_type = Missing -> "Unknown Event:"
                           [] request[w].data.event_type = None -> "None:"
                           [] request[w].data.event_type = NonStr("int", "7") -> "7:"
                           [] OTHER -> request[w].data.event_type \o ":")
            ELSE /\ calls[w] = <<>>
                 /\ result[w].code = 500 /\ result[w].exc.type = "AttributeError"

C6_Witness ==
    \E w \in Workers :
        /\ Done(w, "relay") /\ IsObject(request[w].data)
        /\ request[w].data.event_type = Missing
        /\ Len(calls[w]) = 1
        /\ calls[w][1].json.attachments[1].fallback = "Unknown Event - Sales"

\* C7 as claimed: every relay issues exactly one POST, to the Slack webhook URL, and
\* no Tableau call; it answers 200 success exactly when Slack answered 200, and
\* otherwise 500 failure with Slack's body as the error.
C7_Original ==
    \A w \in Workers :
        Done(w, "relay") =>
            /\ Len(calls[w]) = 1
            /\ calls[w][1].peer = "slack" /\ calls[w][1].method = "POST"
            /\ calls[w][1].base = SLACK_WEBHOOK_URL
            /\ session[w] = NoSession
            /\ IF calls[w][1].response.status_code = 200
               THEN result[w].code = 200 /\ result[w].status = "success"
               ELSE /\ result[w].code = 500 /\ result[w].status = "failure"
                    /\ result[w].text = calls[w][1].response.text

\* C7 amended: a relay never issues a Tableau call.  For a notification that is a
\* JSON object it issues exactly one POST, to the Slack webhook URL: answered 200 the
\* relay answers 200 success, answered another status it answers 500 failure with
\* Slack's body as the error, and not answered at all (the POST raises) it ends in
\* that exception, a 500 without the remote body.  A body that is not a JSON object
\* ends in the AttributeError of data.get (500) with no POST issued.
C7_RelayOnePost ==
    \A w \in Workers :
        Done(w, "relay") =>
            /\ session[w] = NoSession
            /\ \A i \in 1..Len(calls[w]) : calls[w][i].peer = "slack"
            /\ IF ~IsObject(request[w].data)
               THEN /\ calls[w] = <<>>
                    /\ result[w].code = 500 /\ result[w].exc.type = "AttributeError"
               ELSE /\ Len(calls[w]) = 1
                    /\ calls[w][1].peer = "slack" /\ calls[w][1].method = "POST"
                    /\ calls[w][1].base = SLACK_WEBHOOK_URL
                    /\ IF calls[w][1].response = NoAnswer
                       THEN /\ result[w].code = 500
                            /\ result[w].exc.type = "ConnectionError"
                            /\ "error" \notin result[w].keys
                       ELSE IF calls[w][1].response.status_code = 200
                       THEN result[w].code = 200 /\ result[w].status = "success"
                       ELSE /\ result[w].code = 500 /\ result[w].status = "failure"
                            /\ result[w].text = calls[w][1].response.text

C7_Witness ==
    \E w \in Workers :
        /\ Done(w, "relay") /\ request[w].data.event_type = "WorkbookRefreshFailed"
        /\ Len(calls[w]) = 1
        /\ calls[w][1].json.attachments[1].fields =
               << [title |-> "Sales", value |-> "boom", short |-> FALSE] >>
        /\ calls[w][1].response.status_code = 404
        /\ result[w].code = 500 /\ result[w].text = Text("channel_not_found")

\* The pieces of a fault document as the claim names them.
ErrorElement(root) == FindChild(root, "error")
HasCode(root) == ErrorElement(root) # NoElement /\ Get(ErrorElement(root), "code", Absent) # Absent

\* C8 as claimed: with status = expected code nothing is raised; otherwise the
\* ApiCallError carries each piece present in the fault document unchanged and exactly
\* "unknown code", "unknown summary", "unknown detail" for each piece that is absent.
C8_Original ==
    cs_result # Pending =>
        IF cs_response.status_code = cs_code THEN cs_result = NoException
        ELSE Parse(cs_response.text).wf =>
            LET root == Parse(cs_response.text).root IN
            /\ cs_result.type = "ApiCallError"
            /\ cs_result.code = (IF HasCode(root) THEN Get(ErrorElement(root), "code", Absent)
                                 ELSE "unknown code")
            /\ cs_result.summary = (IF FindDescendant(root, "summary") # NoElement
                                    THEN FindDescendant(root, "summary").text
                                    ELSE "unknown summary")
            /\ cs_result.detail = (IF FindDescendant(root, "detail") # NoElement
                                   THEN FindDescendant(root, "detail").text
                                   ELSE "unknown detail")

\* C9 as claimed: when a sign-in is answered 200 without a token or without a site id,
\* no authenticated call is issued with the token or the site id missing.
C9_Original ==
    \A w \in Workers :
        \A i \in 1..Len(calls[w]) :
            calls[w][i].peer = "tableau" /\ ~IsSignIn(calls[w][i]) =>
                calls[w][i].auth # None /\ calls[w][i].path[4] # "None"

\* C10: under any interleaving of concurrent administrative requests, the first call of
\* a request is its own sign-in, every later call carries the token and the site id
\* that sign-in returned and never the token handed to another request in flight, and
\* a worker starts each request with no session.
C10_OwnSession ==
    \A w \in Workers :
        /\ pc[w] = "idle" => session[w] = NoSession /\ calls[w] = <<>>
        /\ calls[w] # <<>> => IsSignIn(calls[w][1])
        /\ pc[w] = "signed_in" =>
               /\ Len(calls[w]) = 1
               /\ session[w].token = AnswerToken(calls[w][1])
               /\ session[w].site_id = AnswerSite(calls[w][1])
        /\ \A i \in 2..Len(calls[w]) :
               /\ ~IsSignIn(calls[w][i])
               /\ calls[w][i].auth = AnswerToken(calls[w][1])
               /\ calls[w][i].path[4] = Str(AnswerSite(calls[w][1]))
               /\ \A v \in Workers \ {w} :
                      calls[v] # <<>> /\ AnswerToken(calls[v][1]) # None =>
                          calls[w][i].auth # AnswerToken(calls[v][1])

C10_Witness ==
    \E w, v \in Workers :
        /\ w # v
        /\ pc[v] = "signed_in" /\ session[v].token = Token(1)
        /\ Len(calls[w]) = 2 /\ AnswerToken(calls[w][1]) = Token(2)
        /\ calls[w][2].auth = Token(2)
        /\ calls[w][2].response.status_code = 201

====
